---- MODULE Spec2Model ----
(***************************************************************************)
(* A model of the site-mirroring engine of BlockerBypass, in its three      *)
(* versions: ScraperThread of GuiScraper_.py (normalize_url, is_valid_url,  *)
(* scrape_page, download_resource, save_page, run, stop), ScraperThread of  *)
(* GuiScraper.py (the same without normalize_url and without the            *)
(* TooManyRedirects clause) and WebsiteScraper of Scraper.py.               *)
(*                                                                         *)
(* A URL is a record [host, tail]: the text "http://" host tail, where     *)
(* tail is the sequence of characters after the network location.  tail   *)
(* is empty or starts with "/", "?" or "#", which is where urlparse ends   *)
(* the network location.  The host "[" stands for a URL on which urlparse  *)
(* raises ValueError (an unterminated IPv6 literal).  A reference of a     *)
(* page (the text of an href or src attribute) is such a record too: with  *)
(* the host "" the text is the tail alone, which starts with "/" (a        *)
(* root-relative reference), "#" (a fragment-only one) or the token        *)
(* "javascript:".                                                          *)
(***************************************************************************)
EXTENDS Integers, Sequences, FiniteSets, TLC

VARIABLES
    engine,       \* the program run: "GuiScraper_", "GuiScraper" or "Scraper"
    site,         \* the site crawled: "plain" or "markup"
    base_url,     \* ScraperThread.base_url / WebsiteScraper.base_url
    options,      \* ScraperThread.options: max_depth and the three toggles
    visited,      \* ScraperThread.visited: a set of URLs
    is_running,   \* ScraperThread.is_running, written by stop()
    runPc,        \* position of run(): "start", "crawl", "raised", "done"
    stack,        \* the worker's call stack of scrape_page/download_resource
    inflight,     \* the URLs whose session.get has started and not returned
    fetchLog,     \* history: every session.get started, in order
    progress,     \* the progress lines emitted so far
    final,        \* the finished/error signal emitted by run(), or NoSignal
    disk,         \* the URLs save_page has written under the output directory
    stopped,      \* history: stop() has been called
    faults,       \* history: number of failed fetches and failed writes
    sleeps,       \* history: number of time.sleep calls made
    observedStop, \* history: the worker has read is_running = False
    served,       \* history: the pages scrape_page has saved and parsed
    u, r1, r2, npc, \* the pure-function harness: input, results, position
    v,            \* the pure-function harness: the second input
    cwd,          \* os.getcwd(): the segments of the working directory
    gui,          \* WebScraperGUI: its three buttons, and the signals it has handled
    git           \* the GitThreads started: how many are at each point of run()

vars == <<engine, site, base_url, options, visited, is_running, runPc, stack, inflight,
          fetchLog, progress, final, disk, stopped, faults, sleeps,
          observedStop, served, u, r1, r2, npc, v, cwd, gui, git>>

crawlVars == <<engine, site, base_url, options, visited, is_running, runPc, stack, inflight,
               fetchLog, progress, final, disk, stopped, faults, sleeps,
               observedStop, served>>

pureVars == <<u, r1, r2, npc, v, cwd>>

appVars == <<gui, git>>

-----------------------------------------------------------------------------
(* Bounds of the model *)

\* Largest options['max_depth'] a run is started with.
MaxDepthOpt == 1

\* Largest number of failed fetches / failed writes in one run.
MaxFaults == 1

\* Longest URL tail the pure-function harness enumerates.
MaxLen == 4

\* Most path segments of a URL given to get_relative_path.
MaxSegs == 2

\* Most clicks on Start Scraping, and on Push to GitHub, in one session.
MaxRuns == 2
MaxPushes == 1

-----------------------------------------------------------------------------
(* Text helpers: Python's str operations on sequences of characters *)

\* Position of the first character of s that is in cs, or Len(s)+1.
RECURSIVE FirstIn(_, _, _)
FirstIn(s, cs, i) ==
    IF i > Len(s) THEN Len(s) + 1
    ELSE IF s[i] \in cs THEN i
    ELSE FirstIn(s, cs, i + 1)

\* Position of the last "/" of s, or 0.
RECURSIVE LastSlash(_, _)
LastSlash(s, i) ==
    IF i = 0 THEN 0
    ELSE IF s[i] = "/" THEN i
    ELSE LastSlash(s, i - 1)

\* pat in s (substring test)
Contains(s, pat) ==
    \E i \in 1..(Len(s) - Len(pat) + 1) : SubSeq(s, i, i + Len(pat) - 1) = pat

\* s.endswith('/')
EndsWithSlash(s) == Len(s) > 0 /\ s[Len(s)] = "/"

\* os.path.basename(p): what follows the last "/"
Basename(p) == SubSeq(p, LastSlash(p, Len(p)) + 1, Len(p))

\* urlparse(url).path: the tail up to the first "?" or "#", without the
\* parameters of its last segment (what follows the first ";" after the
\* last "/")
PathOf(url) ==
    LET p == SubSeq(url.tail, 1, FirstIn(url.tail, {"?", "#"}, 1) - 1)
    IN  SubSeq(p, 1, FirstIn(p, {";"}, LastSlash(p, Len(p)) + 1) - 1)

\* url.split('#')[0]
WithoutFragment(url) ==
    [host |-> url.host, tail |-> SubSeq(url.tail, 1, FirstIn(url.tail, {"#"}, 1) - 1)]

\* urlparse raises ValueError on this URL
Malformed(url) == url.host = "["

GitPattern == <<".", "g", "i", "t">>

-----------------------------------------------------------------------------
(* URL functions of ScraperThread *)

\* normalize_url: strip the fragment; unless the path is empty or "/", append
\* "/" to the whole URL text when the last path segment has no "." and the
\* path does not end in "/".
normalize_url(url) ==
    LET path == PathOf(url)
        url_without_fragment == WithoutFragment(url)
    IN  IF path = <<>> \/ path = <<"/">> THEN url_without_fragment
        ELSE IF ~Contains(Basename(path), <<".">>) /\ ~EndsWithSlash(path)
             THEN [url_without_fragment EXCEPT !.tail = @ \o <<"/">>]
             ELSE url_without_fragment

GuiEngines == {"GuiScraper_", "GuiScraper"}

\* the URL as the engine keys it: GuiScraper_.py normalizes (scrape_page,
\* the anchor loop, download_resource); the other two use the URL as it is
Normalized(url) == IF engine = "GuiScraper_" THEN normalize_url(url) ELSE url

\* a test that takes every URL for one of the seed's site
is_valid_urlAny(url) == TRUE

\* the same test, on the network location and the path
is_valid_urlSamePath(url) == url.host = base_url.host /\ PathOf(url) = PathOf(base_url)

\* is_valid_url: same network location as the seed
is_valid_url(url) == url.host = base_url.host

\* a test that finds no URL under .git
GitInPathNever(url) == FALSE

\* '.git' in urlparse(url).path
GitInPath(url) == Contains(PathOf(url), GitPattern)

\* '.git' in href (the raw attribute text; the host text holds no ".git")
GitInHref(url) == Contains(url.tail, GitPattern)

\* href.startswith('#') or href.startswith('javascript:')
FragmentOrScript(href) ==
    href.host = "" /\ href.tail # <<>> /\ href.tail[1] \in {"#", "javascript:"}

\* urljoin(url, href) for the references defined above: an absolute reference
\* and a javascript: one come back as they are, a fragment replaces the
\* fragment of url, a root-relative reference replaces all that follows the
\* network location
urljoin(url, href) ==
    IF href.host # "" THEN href
    ELSE IF href.tail = <<>> THEN url
    ELSE IF href.tail[1] = "javascript:" THEN href
    ELSE IF href.tail[1] = "#"
         THEN [host |-> url.host, tail |-> WithoutFragment(url).tail \o href.tail]
    ELSE [host |-> url.host, tail |-> href.tail]

-----------------------------------------------------------------------------
(* The sites a run is checked against *)

NoUrl == [host |-> "", tail |-> <<>>]

uRoot  == [host |-> "ex", tail |-> <<"/">>]
uA     == [host |-> "ex", tail |-> <<"/", "a">>]
uB     == [host |-> "ex", tail |-> <<"/", "b", "/">>]
uC     == [host |-> "ex", tail |-> <<"/", "c">>]
uImg   == [host |-> "ex", tail |-> <<"/", "i", ".", "p">>]
uImgF  == [host |-> "ex", tail |-> <<"/", "i", ".", "p", "#", "f">>]
uCss   == [host |-> "ex", tail |-> <<"/", "s", ".", "c">>]
uJs    == [host |-> "ex", tail |-> <<"/", "j", ".", "j">>]
uGit   == [host |-> "ex", tail |-> <<"/", ".", "g", "i", "t", "/", "c">>]
uOther == [host |-> "ot", tail |-> <<"/", "x">>]
uBad   == [host |-> "[", tail |-> <<>>]
hFrag  == [host |-> "", tail |-> <<"#", "f">>]
hJs    == [host |-> "", tail |-> <<"javascript:", "v">>]
hCss   == [host |-> "", tail |-> <<"/", "s", ".", "c">>]

\* The seeds a run is started with: a root page, a URL under a .git
\* directory, and a URL urlparse rejects.
Seeds == {uRoot, uGit, uBad}

NoPage == [ctype |-> "none", anchors |-> <<>>, imgs |-> <<>>, css |-> <<>>, js |-> <<>>, defect |-> "none"]

\* The response bodies a server may return: content type, and the references
\* of the body in document order (a href, img src, link rel=stylesheet href,
\* script src), and what is wrong with the body: "parse" when BeautifulSoup
\* raises on it, "serialize" when str(soup) raises on its tree.  None of
\* these bodies starts like an XML document.  The references of this site
\* are absolute URLs.
Pages == {
    [ctype |-> "text/html", anchors |-> <<>>, imgs |-> <<>>, css |-> <<>>, js |-> <<>>, defect |-> "none"],
    [ctype |-> "text/html", anchors |-> <<uA, uB>>, imgs |-> <<uImg, uImgF>>,
     css |-> <<>>, js |-> <<>>, defect |-> "none"],
    [ctype |-> "text/html", anchors |-> <<uB, uRoot>>, imgs |-> <<uImgF>>,
     css |-> <<uCss>>, js |-> <<>>, defect |-> "none"],
    [ctype |-> "text/html", anchors |-> <<uGit, uOther, uA, uBad>>, imgs |-> <<>>,
     css |-> <<>>, js |-> <<uJs>>, defect |-> "none"],
    [ctype |-> "application/octet-stream", anchors |-> <<uB>>, imgs |-> <<>>,
     css |-> <<>>, js |-> <<>>, defect |-> "none"]
}

\* The response bodies of a second site, whose pages hold references of
\* every kind save_page and scrape_page tell apart: fragment-only,
\* javascript:, root-relative, out of scope, under .git, and malformed;
\* and bodies that cannot be parsed or serialized.
MarkupPages == {
    [ctype |-> "text/html", anchors |-> <<hFrag, hJs, uOther, uA>>,
     imgs |-> <<uGit, uImg>>, css |-> <<hCss>>, js |-> <<uJs>>, defect |-> "none"],
    [ctype |-> "text/html", anchors |-> <<uGit, uB>>, imgs |-> <<uBad>>,
     css |-> <<>>, js |-> <<>>, defect |-> "none"],
    [ctype |-> "text/html", anchors |-> <<>>, imgs |-> <<>>, css |-> <<>>,
     js |-> <<>>, defect |-> "parse"],
    [ctype |-> "text/html", anchors |-> <<uA>>, imgs |-> <<uImg>>, css |-> <<>>,
     js |-> <<>>, defect |-> "serialize"]
}

\* The response bodies of a site whose pages link to the image they show.
LeafPages == {
    [ctype |-> "text/html", anchors |-> <<uA, uImg>>, imgs |-> <<uImg>>, css |-> <<>>,
     js |-> <<>>, defect |-> "none"],
    [ctype |-> "text/html", anchors |-> <<uImgF>>, imgs |-> <<uImg, uImgF>>, css |-> <<>>,
     js |-> <<>>, defect |-> "none"]
}

\* The response bodies of a site where a page is linked both from the root
\* and from another page the root links to first.
DeepPages == {
    [ctype |-> "text/html", anchors |-> <<uA, uB>>, imgs |-> <<uImg>>, css |-> <<>>,
     js |-> <<>>, defect |-> "none"],
    [ctype |-> "text/html", anchors |-> <<uB>>, imgs |-> <<>>, css |-> <<>>,
     js |-> <<>>, defect |-> "none"],
    [ctype |-> "text/html", anchors |-> <<uC>>, imgs |-> <<>>, css |-> <<>>,
     js |-> <<>>, defect |-> "none"]
}

\* The one response body of the site the window is run on: a page that
\* shows an image.
AppPages == {
    [ctype |-> "text/html", anchors |-> <<>>, imgs |-> <<uImg>>, css |-> <<>>,
     js |-> <<>>, defect |-> "none"]
}

\* the response bodies of the site crawled
Bodies ==
    IF site = "markup" THEN MarkupPages
    ELSE IF site = "leaf" THEN LeafPages
    ELSE IF site = "deep" THEN DeepPages
    ELSE IF site = "app" THEN AppPages
    ELSE Pages

Options == [max_depth : 0..MaxDepthOpt, download_images : BOOLEAN,
            download_css : BOOLEAN, download_js : BOOLEAN]

NoSignal == [sig |-> "none", n |-> 0]

\* a progress line: its fixed text, the URL it names, and for a line that
\* prints an exception (str(e)) the kind of exception
Line(kind, url, e) == [line |-> kind, url |-> url, e |-> e]

-----------------------------------------------------------------------------
(* save_page: the path under the output directory *)

\* path.strip('/'): drop leading and trailing "/"
RECURSIVE StripLeft(_)
StripLeft(p) == IF Len(p) > 0 /\ p[1] = "/" THEN StripLeft(Tail(p)) ELSE p

RECURSIVE StripRight(_)
StripRight(p) ==
    IF Len(p) > 0 /\ p[Len(p)] = "/" THEN StripRight(SubSeq(p, 1, Len(p) - 1)) ELSE p

Strip(p) == StripRight(StripLeft(p))

\* path.split('/'): the set of segments is all the check below needs
RECURSIVE Segments(_)
Segments(p) ==
    LET k == FirstIn(p, {"/"}, 1)
    IN  IF k > Len(p) THEN {p}
        ELSE {SubSeq(p, 1, k - 1)} \cup Segments(SubSeq(p, k + 1, Len(p)))

\* os.path.join(path, 'index.html'); "index.html" is kept as one token
JoinIndex(p) ==
    IF p = <<>> THEN <<"index.html">>
    ELSE IF EndsWithSlash(p) THEN p \o <<"index.html">>
    ELSE p \o <<"/", "index.html">>

\* save_page returns None, writing nothing, for a path with a .git segment
SaveSkipped(url) == GitPattern \in Segments(Strip(PathOf(url)))

\* the file path save_page writes, relative to output_dir
SavePath(url) ==
    LET path == Strip(PathOf(url))
    IN  IF path = <<>> \/ EndsWithSlash(path) THEN JoinIndex(path)
        ELSE IF ~Contains(Basename(path), <<".">>) THEN JoinIndex(path)
        ELSE path

\* is_html = 'text/html' in content_type
IsHtml(ctype) == ctype = "text/html"

-----------------------------------------------------------------------------
(* get_relative_path: os.path on POSIX, where the separator is "/" *)

Dot == <<".">>
DotDot == <<".", ".">>

\* the working directory of a crawl: one level below the filesystem root
WorkDir == <<<<"w">>>>

\* a reference with no network location: the attribute text is the tail
RelRef(text) == [host |-> "", tail |-> text]

\* p.split('/'), as a sequence of segments
RECURSIVE SplitSlash(_)
SplitSlash(p) ==
    LET k == FirstIn(p, {"/"}, 1)
    IN  IF k > Len(p) THEN <<p>>
        ELSE <<SubSeq(p, 1, k - 1)>> \o SplitSlash(SubSeq(p, k + 1, Len(p)))

\* '/'.join(segs)
RECURSIVE JoinSlash(_)
JoinSlash(segs) ==
    IF segs = <<>> THEN <<>>
    ELSE IF Len(segs) = 1 THEN segs[1]
    ELSE segs[1] \o <<"/">> \o JoinSlash(Tail(segs))

\* the loop of posixpath.normpath over the segments comps, new being the
\* segments kept so far; initial_slashes tells an absolute path
RECURSIVE NormSegs(_, _, _)
NormSegs(comps, new, initial_slashes) ==
    IF comps = <<>> THEN new
    ELSE LET comp == Head(comps)
             rest == Tail(comps)
         IN  IF comp = <<>> \/ comp = Dot
             THEN NormSegs(rest, new, initial_slashes)
             ELSE IF \/ comp # DotDot
                     \/ (~initial_slashes /\ new = <<>>)
                     \/ (new # <<>> /\ new[Len(new)] = DotDot)
             THEN NormSegs(rest, Append(new, comp), initial_slashes)
             ELSE IF new # <<>>
             THEN NormSegs(rest, SubSeq(new, 1, Len(new) - 1), initial_slashes)
             ELSE NormSegs(rest, new, initial_slashes)

\* os.path.normpath(p) of a relative path p
normpath(p) ==
    LET new == NormSegs(SplitSlash(p), <<>>, FALSE)
    IN  IF new = <<>> THEN Dot ELSE JoinSlash(new)

\* os.path.abspath(p) of a relative path p, as segments below the root:
\* normpath(join(os.getcwd(), p))
abspath(p) == NormSegs(cwd \o SplitSlash(p), <<>>, TRUE)

\* os.path.dirname(p)
dirname(p) ==
    LET head == SubSeq(p, 1, LastSlash(p, Len(p)))
    IN  IF head # <<>> /\ StripRight(head) # <<>> THEN StripRight(head) ELSE head

\* len(os.path.commonprefix([a, b])) of two lists of segments
RECURSIVE CommonLen(_, _)
CommonLen(a, b) ==
    IF a = <<>> \/ b = <<>> \/ Head(a) # Head(b) THEN 0
    ELSE 1 + CommonLen(Tail(a), Tail(b))

\* os.path.relpath(path, start)
relpath(path, start) ==
    LET start_list == abspath(start)
        path_list == abspath(path)
        i == CommonLen(start_list, path_list)
        rel_list == [k \in 1..(Len(start_list) - i) |-> DotDot]
                        \o SubSeq(path_list, i + 1, Len(path_list))
    IN  IF rel_list = <<>> THEN Dot ELSE JoinSlash(rel_list)

\* rel_path.replace('\\', '/')
ForwardSlashes(text) == [k \in DOMAIN text |-> IF text[k] = "\\" THEN "/" ELSE text[k]]

\* from_path / to_path of get_relative_path: the URL path, stripped, with
\* index.html joined as in save_page
MappedPath(url) ==
    LET path == Strip(PathOf(url))
    IN  IF path = <<>> \/ EndsWithSlash(path) THEN JoinIndex(path)
        ELSE IF ~Contains(Basename(path), <<".">>) THEN JoinIndex(path)
        ELSE path

\* from_dir = os.path.dirname(from_path)
FromDir(from_path) == dirname(from_path)

get_relative_path(from_url, to_url) ==
    LET from_path == MappedPath(from_url)
        to_path == MappedPath(to_url)
        from_dir == FromDir(from_path)
        rel_path == relpath(to_path, from_dir)
    IN  ForwardSlashes(rel_path)

-----------------------------------------------------------------------------
(* save_page: the content written *)

\* the content of a file: the values of its reference attributes, in
\* document order
NoBody == [anchors |-> <<>>, imgs |-> <<>>, css |-> <<>>, js |-> <<>>]

\* the bytes of the response, as received
Original(page) ==
    [anchors |-> page.anchors, imgs |-> page.imgs, css |-> page.css, js |-> page.js]

\* the references save_page hands to urljoin: those without '.git', of
\* every kind and whatever the options
Joined(page) ==
    {r \in {page.anchors[k] : k \in DOMAIN page.anchors}
              \cup {page.imgs[k] : k \in DOMAIN page.imgs}
              \cup {page.css[k] : k \in DOMAIN page.css}
              \cup {page.js[k] : k \in DOMAIN page.js} : ~GitInHref(r)}

\* urljoin raises ValueError inside the try of save_page
RewriteRaises(page) == \E r \in Joined(page) : Malformed(r)

\* the exception raised inside the try of save_page, "" for none: by
\* BeautifulSoup on the body, by urljoin in a loop, or by str(soup)
SaveRaises(page) ==
    IF page.defect = "parse" THEN "ParseError"
    ELSE IF RewriteRaises(page) THEN "ValueError"
    ELSE IF page.defect = "serialize" THEN "SerializeError"
    ELSE ""

\* one turn of a loop of save_page: the value the attribute is left with
Fixed(url, href) ==
    IF GitInHref(href) THEN href
    ELSE LET absolute_url == urljoin(url, href)
         IN  IF is_valid_url(absolute_url)
             THEN RelRef(get_relative_path(url, absolute_url))
             ELSE href

FixAll(url, refs) == [k \in DOMAIN refs |-> Fixed(url, refs[k])]

\* content = str(soup).encode('utf-8'), after the four loops
Rewritten(url, page) ==
    [anchors |-> FixAll(url, page.anchors), imgs |-> FixAll(url, page.imgs),
     css |-> FixAll(url, page.css), js |-> FixAll(url, page.js)]

\* an except clause that writes the tree as far as it was rewritten: the
\* anchors done, the rest as received
PartlyRewritten(url, page) ==
    [anchors |-> [k \in DOMAIN page.anchors |->
                     IF Malformed(page.anchors[k]) THEN page.anchors[k]
                     ELSE Fixed(url, page.anchors[k])],
     imgs |-> page.imgs, css |-> page.css, js |-> page.js]

\* except Exception in save_page: content is still the response body
Unrewritten(url, page) == Original(page)

\* a save_page that fixes the links whatever is_html says
ContentAlwaysFixed(url, is_html, page) ==
    IF SaveRaises(page) = "" THEN Rewritten(url, page) ELSE Unrewritten(url, page)

\* the content save_page writes: the response body as it is unless is_html,
\* and then the body with its links fixed, or as it is when that raised
Content(url, is_html, page) ==
    IF ~is_html THEN Original(page)
    ELSE IF SaveRaises(page) = "" THEN Rewritten(url, page)
    ELSE Unrewritten(url, page)

\* the response to the request of download_resource for url: a body that
\* holds a link to a page of the site and a reference to itself
ResourcePage(url) ==
    [ctype |-> "image/svg+xml", anchors |-> <<uB>>, imgs |-> <<url>>, css |-> <<>>,
     js |-> <<>>, defect |-> "none"]

\* the file save_page writes for url: its path, its content, and for the
\* record the response body it was made from
File(url, is_html, body, received) ==
    [path |-> SavePath(url), url |-> url, is_html |-> is_html, body |-> body,
     received |-> received]

-----------------------------------------------------------------------------
(* The crawl worker: ScraperThread.run and what it calls *)

Frame(fn, url, depth, pc) ==
    [fn |-> fn, url |-> url, depth |-> depth, pc |-> pc, page |-> NoPage, i |-> 1]

Top == stack[Len(stack)]
Callers == SubSeq(stack, 1, Len(stack) - 1)

\* the running function returns
Return == stack' = Callers
\* the running function moves on
Goto(f) == stack' = Append(Callers, f)
\* the running function, left at f, calls g
Call(f, g) == stack' = Callers \o <<f, g>>

Emit(kind, url) == progress' = Append(progress, Line(kind, url, ""))
EmitErr(kind, url, e) == progress' = Append(progress, Line(kind, url, e))

\* no except clause in the running function: its caller's clause handles it
Propagated == stack' = SubSeq(stack, 1, Len(stack) - 2)

\* an except clause of the running function has handled the exception and
\* the function returns
Handled == stack' = Callers

InScrape(pc) ==
    /\ engine \in GuiEngines
    /\ runPc = "crawl" /\ stack # <<>>
    /\ Top.fn = "scrape_page" /\ Top.pc = pc

InResource(pc) ==
    /\ engine \in GuiEngines
    /\ runPc = "crawl" /\ stack # <<>>
    /\ Top.fn = "download_resource" /\ Top.pc = pc

\* if url in self.visited: return          (scrape_page)
AlreadyVisited(url) == url \in visited

\* the same test, off by one
DepthExceededLate(depth) == depth > options.max_depth + 1

\* if depth > self.options['max_depth']: return
DepthExceeded(depth) == depth > options.max_depth

\* the add left out
MarkVisitedSkipped(url) == visited

\* self.visited.add(url)                    (scrape_page)
MarkVisited(url) == visited \cup {url}

\* a scrape_page that marks the URL before its tests
VisitedAfterSkipMarked(url) == visited \cup {url}

\* the visited set after a "return" of the first lines of scrape_page, all of
\* which come before self.visited.add(url)
VisitedAfterSkip(url) == visited

\* an anchor loop that does not look at the flag
AnchorLoopUnchecked == TRUE

\* "if not self.is_running: return" at the top of each turn of the anchor loop
AnchorLoopRunning == is_running

\* a resource loop that does not look at the flag
ResourceLoopUnchecked == TRUE

\* "if not self.is_running: return" at the top of each resource loop turn
ResourceLoopRunning == is_running

\* if url in self.visited: return          (download_resource, before
\* the URL is normalized)
ResourceSeen(url) == url \in visited

\* a download_resource that leaves the visited set as it is
MarkResourceSkipped(url) == visited

\* self.visited.add(url)                    (download_resource)
MarkResource(url) == visited \cup {url}

\* the loop of scrape_page the running function was called from, or "run"
Via == IF Len(stack) > 1 THEN stack[Len(stack) - 1].pc ELSE "run"

\* the page whose loop the running function was called from, and the
\* position in that loop of the reference it was called for
ViaPage == IF Len(stack) > 1 THEN stack[Len(stack) - 1].url ELSE NoUrl
ViaRef == IF Len(stack) > 1 THEN stack[Len(stack) - 1].i - 1 ELSE 0

\* "if href.startswith('#') or href.startswith('javascript:'): continue",
\* which the anchor loop of GuiScraper.py does not have
AnchorSkipped(href) == engine = "GuiScraper_" /\ FragmentOrScript(href)

\* one session.get starts
StartGet(f) ==
    /\ inflight' = inflight \cup {f.url}
    /\ fetchLog' = Append(fetchLog,
          [url |-> f.url, fn |-> f.fn, depth |-> f.depth,
           stopped |-> stopped, observed |-> observedStop,
           marked |-> f.url \in visited, via |-> Via,
           parent |-> ViaPage, ref |-> ViaRef])

\* with open(file_path, 'wb') as f: f.write(content)
SaveFile(url, is_html, body, received) ==
    disk' = IF SaveSkipped(url) THEN disk
            ELSE disk \cup {File(url, is_html, body, received)}

\* run(): emit the first line and call scrape_page(base_url)
RunStart ==
    /\ engine \in GuiEngines
    /\ runPc = "start"
    /\ runPc' = "crawl"
    /\ Emit("Starting", base_url)
    /\ stack' = <<Frame("scrape_page", base_url, 0, "enter")>>
    /\ UNCHANGED <<engine, site, base_url, options, visited, is_running, inflight, fetchLog,
                   final, disk, stopped, observedStop, faults, sleeps, served, pureVars, appVars>>

\* scrape_page, from its first line to the line before session.get
ScrapeEnter ==
    /\ InScrape("enter")
    /\ IF ~is_running
       THEN /\ Return
            /\ observedStop' = TRUE
            /\ visited' = VisitedAfterSkip(Top.url)
            /\ UNCHANGED <<progress, runPc>>
       ELSE IF Malformed(Top.url)
       THEN \* urlparse raises outside the try (in normalize_url; in
            \* GuiScraper.py in the .git test): the exception leaves
            \* scrape_page.  Only the seed can be malformed here: for a link,
            \* urljoin has raised in the caller's loop already.
            /\ stack' = <<>>
            /\ runPc' = "raised"
            /\ UNCHANGED <<visited, progress, observedStop>>
       ELSE LET url == Normalized(Top.url)
            IN  IF AlreadyVisited(url) \/ DepthExceeded(Top.depth) \/ GitInPath(url)
                THEN /\ Return
                     /\ visited' = VisitedAfterSkip(url)
                     /\ UNCHANGED <<progress, runPc, observedStop>>
                ELSE /\ visited' = MarkVisited(url)
                     /\ Emit("Scraping", url)
                     /\ Goto([Top EXCEPT !.url = url, !.pc = "get"])
                     /\ UNCHANGED <<runPc, observedStop>>
    /\ UNCHANGED <<engine, site, base_url, options, is_running, inflight, fetchLog, final,
                   disk, stopped, faults, sleeps, served, pureVars, appVars>>

\* scrape_page: response = self.session.get(url, ...) is called
ScrapeGet ==
    /\ InScrape("get")
    /\ StartGet(Top)
    /\ Goto([Top EXCEPT !.pc = "resp"])
    /\ UNCHANGED <<engine, site, base_url, options, visited, is_running, runPc, progress,
                   final, disk, stopped, observedStop, faults, sleeps, served, pureVars, appVars>>

\* scrape_page: session.get returns or raises; raise_for_status; save_page
ScrapeResp ==
    /\ InScrape("resp")
    /\ inflight' = inflight \ {Top.url}
    /\ \/ \* the request fails: except TooManyRedirects (GuiScraper_.py; in
          \* GuiScraper.py the one except clause takes it)
          /\ faults < MaxFaults
          /\ faults' = faults + 1
          /\ EmitErr(IF engine = "GuiScraper_" THEN "TooManyRedirects" ELSE "Error",
                     Top.url, "TooManyRedirects")
          /\ Handled
          /\ UNCHANGED <<disk, served>>
       \/ \* the request fails (network error, raise_for_status): except Exception
          /\ faults < MaxFaults
          /\ faults' = faults + 1
          /\ EmitErr("Error", Top.url, "RequestException")
          /\ Handled
          /\ UNCHANGED <<disk, served>>
       \/ \* the response is good, and mkdir or open raises in save_page:
          \* except Exception
          /\ faults < MaxFaults
          /\ faults' = faults + 1
          /\ EmitErr("Error", Top.url, "OSError")
          /\ Handled
          /\ UNCHANGED <<disk, served>>
       \/ \* the response is good and save_page writes it; scrape_page
          \* parses the body, whatever its content type
          \E page \in Bodies :
             LET is_html == IsHtml(page.ctype)
                 e == IF is_html /\ ~SaveSkipped(Top.url) THEN SaveRaises(page) ELSE ""
                 lines == (IF e = "" THEN <<>> ELSE <<Line("Warning", Top.url, e)>>)
                              \o <<Line("Saved", Top.url, "")>>
             IN  /\ SaveFile(Top.url, is_html, Content(Top.url, is_html, page),
                             Original(page))
                 /\ IF page.defect = "parse"
                    THEN \* BeautifulSoup raises again: except Exception
                         /\ progress' = progress \o lines
                                            \o <<Line("Error", Top.url, "ParseError")>>
                         /\ Handled
                         /\ UNCHANGED served
                    ELSE /\ progress' = progress \o lines
                         /\ served' = served \cup {[url |-> Top.url, depth |-> Top.depth,
                                                     page |-> page]}
                         /\ Goto([Top EXCEPT !.pc = "a", !.page = page, !.i = 1])
                 /\ UNCHANGED faults
    /\ UNCHANGED <<engine, site, base_url, options, visited, is_running, runPc, fetchLog,
                   final, stopped, observedStop, sleeps, pureVars, appVars>>

\* the loops in another order: stylesheets, then images, then scripts
AfterStylesFirst(pc) ==
    CASE pc = "a"   -> "css"
      [] pc = "css" -> "img"
      [] pc = "img" -> "js"
      [] pc = "js"  -> "sleep"

\* what follows each loop of scrape_page: anchors, images, stylesheets,
\* scripts, and then the sleep
After(pc) ==
    CASE pc = "a"   -> "img"
      [] pc = "img" -> "css"
      [] pc = "css" -> "js"
      [] pc = "js"  -> "sleep"

\* scrape_page: one turn of "for link in soup.find_all('a', href=True)"
AnchorStep ==
    /\ InScrape("a")
    /\ IF Top.i > Len(Top.page.anchors)
       THEN \* the loop is over
            /\ Goto([Top EXCEPT !.pc = After("a"), !.i = 1])
            /\ UNCHANGED <<progress, observedStop>>
       ELSE IF ~AnchorLoopRunning
       THEN /\ Return
            /\ observedStop' = TRUE
            /\ UNCHANGED progress
       ELSE LET href == Top.page.anchors[Top.i]
                next == [Top EXCEPT !.i = @ + 1]
            IN  IF GitInHref(href) \/ AnchorSkipped(href)
                THEN /\ Goto(next)
                     /\ UNCHANGED <<progress, observedStop>>
                ELSE IF Malformed(href)
                THEN \* urljoin raises inside the try: except Exception
                     /\ EmitErr("Error", Top.url, "ValueError")
                     /\ Handled
                     /\ UNCHANGED observedStop
                ELSE LET absolute_url == Normalized(urljoin(Top.url, href))
                     IN  /\ IF is_valid_url(absolute_url) /\ absolute_url \notin visited
                            THEN Call(next, Frame("scrape_page", absolute_url,
                                                  Top.depth + 1, "enter"))
                            ELSE Goto(next)
                         /\ UNCHANGED <<progress, observedStop>>
    /\ UNCHANGED <<engine, site, base_url, options, visited, is_running, runPc, inflight,
                   fetchLog, final, disk, stopped, faults, sleeps, served, pureVars, appVars>>

\* resource loops that run whatever the options
ToggleIgnored(pc) == TRUE

\* the three resource loops of scrape_page, in the order of the code
Toggle(pc) ==
    CASE pc = "img" -> options.download_images
      [] pc = "css" -> options.download_css
      [] pc = "js"  -> options.download_js

Refs(f) ==
    CASE f.pc = "img" -> f.page.imgs
      [] f.pc = "css" -> f.page.css
      [] f.pc = "js"  -> f.page.js

\* scrape_page: one turn of a resource loop, download_resource included up
\* to the line before its session.get
ResourceStep ==
    /\ engine \in GuiEngines
    /\ runPc = "crawl" /\ stack # <<>>
    /\ Top.fn = "scrape_page" /\ Top.pc \in {"img", "css", "js"}
    /\ IF ~Toggle(Top.pc) \/ Top.i > Len(Refs(Top))
       THEN \* the option is off, or the loop is over
            /\ Goto([Top EXCEPT !.pc = After(Top.pc), !.i = 1])
            /\ UNCHANGED <<visited, progress, observedStop>>
       ELSE IF ~ResourceLoopRunning
       THEN /\ Return
            /\ observedStop' = TRUE
            /\ UNCHANGED <<visited, progress>>
       ELSE LET src == Refs(Top)[Top.i]
                next == [Top EXCEPT !.i = @ + 1]
            IN  IF GitInHref(src)
                THEN /\ Goto(next)
                     /\ UNCHANGED <<visited, progress, observedStop>>
                ELSE IF Malformed(src)
                THEN /\ EmitErr("Error", Top.url, "ValueError")
                     /\ Handled
                     /\ UNCHANGED <<visited, observedStop>>
                ELSE LET res_url == urljoin(Top.url, src)
                     IN  IF /\ is_valid_url(res_url)
                            /\ ~ResourceSeen(res_url) /\ ~GitInPath(res_url)
                         THEN \* download_resource(res_url) goes on to its request
                              /\ visited' = MarkResource(Normalized(res_url))
                              /\ Call(next, Frame("download_resource", Normalized(res_url),
                                                  Top.depth, "get"))
                              /\ UNCHANGED <<progress, observedStop>>
                         ELSE /\ Goto(next)
                              /\ UNCHANGED <<visited, progress, observedStop>>
    /\ UNCHANGED <<engine, site, base_url, options, is_running, runPc, inflight, fetchLog,
                   final, disk, stopped, faults, sleeps, served, pureVars, appVars>>

\* download_resource: response = self.session.get(url, ...) is called
ResourceGet ==
    /\ InResource("get")
    /\ StartGet(Top)
    /\ Goto([Top EXCEPT !.pc = "resp"])
    /\ UNCHANGED <<engine, site, base_url, options, visited, is_running, runPc, progress,
                   final, disk, stopped, observedStop, faults, sleeps, served, pureVars, appVars>>

\* download_resource: session.get returns or raises; save_page(is_html=False)
ResourceResp ==
    /\ InResource("resp")
    /\ inflight' = inflight \ {Top.url}
    /\ \/ \* except TooManyRedirects (GuiScraper_.py)
          /\ faults < MaxFaults
          /\ faults' = faults + 1
          /\ EmitErr(IF engine = "GuiScraper_" THEN "ResourceRedirects"
                     ELSE "ResourceError", Top.url, "TooManyRedirects")
          /\ Handled
          /\ UNCHANGED disk
       \/ \* except Exception, from the request
          /\ faults < MaxFaults
          /\ faults' = faults + 1
          /\ EmitErr("ResourceError", Top.url, "RequestException")
          /\ Handled
          /\ UNCHANGED disk
       \/ \* except Exception, from mkdir or open in save_page
          /\ faults < MaxFaults
          /\ faults' = faults + 1
          /\ EmitErr("ResourceError", Top.url, "OSError")
          /\ Handled
          /\ UNCHANGED disk
       \/ \* the response is good and save_page writes it; nothing is logged
          /\ SaveFile(Top.url, FALSE, Content(Top.url, FALSE, ResourcePage(Top.url)),
                      Original(ResourcePage(Top.url)))
          /\ Return
          /\ UNCHANGED <<progress, faults>>
    /\ UNCHANGED <<engine, site, base_url, options, visited, is_running, runPc, fetchLog,
                   final, stopped, observedStop, sleeps, served, pureVars, appVars>>

\* scrape_page: time.sleep(self.options['delay']), then the function returns
Sleep ==
    /\ InScrape("sleep")
    /\ sleeps' = sleeps + 1
    /\ Return
    /\ UNCHANGED <<engine, site, base_url, options, visited, is_running, runPc, inflight,
                   fetchLog, progress, final, disk, stopped, observedStop,
                   faults, served, pureVars, appVars>>

Finished(n) == [sig |-> "finished", n |-> n]

\* an except clause that emits nothing
ErrorSwallowed == NoSignal

\* self.error.emit(str(e))
ErrorSignal == [sig |-> "error", n |-> 0]

\* the number of files written
SavedCount == Cardinality(disk)

\* len(self.visited)
VisitedCount == Cardinality(visited)

\* the stopped branch reporting the number of URLs visited
StoppedSignalCount == Finished(Cardinality(visited))

\* self.finished.emit(0)
StoppedSignal == Finished(0)

\* run(): scrape_page(base_url) has returned
RunFinish ==
    /\ engine \in GuiEngines
    /\ runPc = "crawl" /\ stack = <<>>
    /\ runPc' = "done"
    /\ IF is_running
       THEN /\ progress' = progress \o <<Line("Rule", NoUrl, ""), Line("Complete", NoUrl, ""),
                                         Line("Total", NoUrl, ""), Line("OutputDir", NoUrl, "")>>
            /\ final' = Finished(VisitedCount)
            /\ UNCHANGED observedStop
       ELSE /\ Emit("Stopped", NoUrl)
            /\ final' = StoppedSignal
            /\ observedStop' = TRUE
    /\ UNCHANGED <<engine, site, base_url, options, visited, is_running, stack, inflight,
                   fetchLog, disk, stopped, faults, sleeps, served, pureVars, appVars>>

\* run(): except Exception as e: self.error.emit(str(e))
RunError ==
    /\ runPc = "raised"
    /\ runPc' = "done"
    /\ final' = ErrorSignal
    /\ UNCHANGED <<engine, site, base_url, options, visited, is_running, stack, inflight,
                   fetchLog, progress, disk, stopped, observedStop, faults,
                   sleeps, served, pureVars, appVars>>

\* stop(), called from the controlling thread at any moment of the run
Stop ==
    /\ engine \in GuiEngines
    /\ ~stopped
    /\ final = NoSignal
    /\ is_running' = FALSE
    /\ stopped' = TRUE
    /\ UNCHANGED <<engine, site, base_url, options, visited, runPc, stack, inflight, fetchLog,
                   progress, final, disk, observedStop, faults, sleeps, served, pureVars, appVars>>

-----------------------------------------------------------------------------
(* WebsiteScraper of Scraper.py: no flag, no depth limit, no .git test, no
   normalization; images are always downloaded, stylesheets and scripts
   never; what it reports is printed *)

InCli(fn, pc) ==
    /\ engine = "Scraper"
    /\ runPc = "crawl" /\ stack # <<>>
    /\ Top.fn = fn /\ Top.pc = pc

\* scrape(): print the first line and call scrape_page(base_url)
CliStart ==
    /\ engine = "Scraper"
    /\ runPc = "start"
    /\ runPc' = "crawl"
    /\ Emit("Starting", base_url)
    /\ stack' = <<Frame("scrape_page", base_url, 0, "enter")>>
    /\ UNCHANGED <<engine, site, base_url, options, visited, is_running, inflight,
                   fetchLog, final, disk, stopped, observedStop, faults, sleeps,
                   served, pureVars, appVars>>

\* scrape_page: the visited test and the add
CliEnter ==
    /\ InCli("scrape_page", "enter")
    /\ IF Top.url \in visited
       THEN Return /\ UNCHANGED visited
       ELSE /\ visited' = visited \cup {Top.url}
            /\ Goto([Top EXCEPT !.pc = "get"])
    /\ UNCHANGED <<engine, site, base_url, options, is_running, runPc, inflight,
                   fetchLog, progress, final, disk, stopped, observedStop,
                   faults, sleeps, served, pureVars, appVars>>

\* scrape_page: requests.get(url, timeout=10) is called
CliGet ==
    /\ InCli("scrape_page", "get")
    /\ StartGet(Top)
    /\ Goto([Top EXCEPT !.pc = "resp"])
    /\ UNCHANGED <<engine, site, base_url, options, visited, is_running, runPc,
                   progress, final, disk, stopped, observedStop, faults, sleeps,
                   served, pureVars, appVars>>

\* scrape_page: requests.get returns or raises; raise_for_status; save_page
CliResp ==
    /\ InCli("scrape_page", "resp")
    /\ inflight' = inflight \ {Top.url}
    /\ \/ \* the request fails, or save_page raises: except Exception
          /\ faults < MaxFaults
          /\ faults' = faults + 1
          /\ \E e \in {"RequestException", "TooManyRedirects", "OSError"} :
                EmitErr("Error", Top.url, e)
          /\ Handled
          /\ UNCHANGED <<disk, served>>
       \/ \E page \in Bodies :
             /\ disk' = disk \cup {File(Top.url, FALSE, Original(page), Original(page))}
             /\ Emit("Saved", Top.url)
             /\ served' = served \cup {[url |-> Top.url, depth |-> Top.depth, page |-> page]}
             /\ Goto([Top EXCEPT !.pc = "a", !.page = page, !.i = 1])
             /\ UNCHANGED faults
    /\ UNCHANGED <<engine, site, base_url, options, visited, is_running, runPc,
                   fetchLog, final, stopped, observedStop, sleeps, pureVars, appVars>>

\* scrape_page: one turn of the anchor loop
CliAnchor ==
    /\ InCli("scrape_page", "a")
    /\ IF Top.i > Len(Top.page.anchors)
       THEN Goto([Top EXCEPT !.pc = "img", !.i = 1]) /\ UNCHANGED progress
       ELSE LET href == Top.page.anchors[Top.i]
                next == [Top EXCEPT !.i = @ + 1]
            IN  IF Malformed(href)
                THEN EmitErr("Error", Top.url, "ValueError") /\ Handled
                ELSE /\ IF is_valid_url(urljoin(Top.url, href))
                        THEN Call(next, Frame("scrape_page", urljoin(Top.url, href),
                                              Top.depth + 1, "enter"))
                        ELSE Goto(next)
                     /\ UNCHANGED progress
    /\ UNCHANGED <<engine, site, base_url, options, visited, is_running, runPc,
                   inflight, fetchLog, final, disk, stopped, observedStop,
                   faults, sleeps, served, pureVars, appVars>>

\* scrape_page: one turn of the image loop, download_resource included up to
\* the line before its requests.get
CliImage ==
    /\ InCli("scrape_page", "img")
    /\ IF Top.i > Len(Top.page.imgs)
       THEN Goto([Top EXCEPT !.pc = "sleep", !.i = 1]) /\ UNCHANGED <<visited, progress>>
       ELSE LET src == Top.page.imgs[Top.i]
                next == [Top EXCEPT !.i = @ + 1]
            IN  IF Malformed(src)
                THEN /\ EmitErr("Error", Top.url, "ValueError")
                     /\ Handled
                     /\ UNCHANGED visited
                ELSE IF is_valid_url(urljoin(Top.url, src)) /\ urljoin(Top.url, src) \notin visited
                THEN /\ visited' = visited \cup {urljoin(Top.url, src)}
                     /\ Call(next, Frame("download_resource", urljoin(Top.url, src),
                                         Top.depth, "get"))
                     /\ UNCHANGED progress
                ELSE Goto(next) /\ UNCHANGED <<visited, progress>>
    /\ UNCHANGED <<engine, site, base_url, options, is_running, runPc, inflight,
                   fetchLog, final, disk, stopped, observedStop, faults, sleeps,
                   served, pureVars, appVars>>

\* download_resource: requests.get(url, timeout=10) is called
CliResourceGet ==
    /\ InCli("download_resource", "get")
    /\ StartGet(Top)
    /\ Goto([Top EXCEPT !.pc = "resp"])
    /\ UNCHANGED <<engine, site, base_url, options, visited, is_running, runPc,
                   progress, final, disk, stopped, observedStop, faults, sleeps,
                   served, pureVars, appVars>>

\* download_resource: requests.get returns or raises; save_page
CliResourceResp ==
    /\ InCli("download_resource", "resp")
    /\ inflight' = inflight \ {Top.url}
    /\ Return
    /\ \/ /\ faults < MaxFaults
          /\ faults' = faults + 1
          /\ \E e \in {"RequestException", "TooManyRedirects", "OSError"} :
                EmitErr("ResourceError", Top.url, e)
          /\ UNCHANGED disk
       \/ /\ disk' = disk \cup {File(Top.url, FALSE, NoBody, NoBody)}
          /\ Emit("Saved", Top.url)
          /\ UNCHANGED faults
    /\ UNCHANGED <<engine, site, base_url, options, visited, is_running, runPc,
                   fetchLog, final, stopped, observedStop, sleeps, served,
                   pureVars, appVars>>

\* scrape_page: time.sleep(0.5), then the function returns
CliSleep ==
    /\ InCli("scrape_page", "sleep")
    /\ sleeps' = sleeps + 1
    /\ Return
    /\ UNCHANGED <<engine, site, base_url, options, visited, is_running, runPc,
                   inflight, fetchLog, progress, final, disk, stopped,
                   observedStop, faults, served, pureVars, appVars>>

\* scrape(): scrape_page(base_url) has returned; the count is printed
CliFinish ==
    /\ engine = "Scraper"
    /\ runPc = "crawl" /\ stack = <<>>
    /\ runPc' = "done"
    /\ Emit("Complete", NoUrl)
    /\ UNCHANGED <<engine, site, base_url, options, visited, is_running, stack,
                   inflight, fetchLog, final, disk, stopped, observedStop,
                   faults, sleeps, served, pureVars, appVars>>

-----------------------------------------------------------------------------
(* Specifications of the crawl *)

\* no window: the worker is run on its own
NoGui == [start_btn |-> FALSE, stop_btn |-> FALSE, push_btn |-> FALSE,
          delivered |-> FALSE, runs |-> 0, pushes |-> 0]

\* no GitThread
NoGit == [started |-> 0, working |-> 0, emitted |-> 0]

PureIdle ==
    /\ u = NoUrl /\ v = NoUrl /\ r1 = NoUrl /\ r2 = NoUrl /\ npc = "off"
    /\ cwd = WorkDir
    /\ gui = NoGui /\ git = NoGit

\* WebsiteScraper takes no options
NoOptions == [max_depth |-> 0, download_images |-> TRUE,
              download_css |-> FALSE, download_js |-> FALSE]

\* the state after construction, for the engines of the set es on the site st
InitRun(es, st) ==
    /\ engine \in es
    /\ site = st
    /\ base_url \in Seeds
    /\ options \in Options
    \* WebsiteScraper.__init__ has no options, and urlparse(base_url) in it
    \* raises on a malformed seed: no object is made
    /\ engine = "Scraper" => (options = NoOptions /\ ~Malformed(base_url))
    /\ visited = {}
    /\ is_running = TRUE
    /\ runPc = "start"
    /\ stack = <<>>
    /\ inflight = {}
    /\ fetchLog = <<>>
    /\ progress = <<>>
    /\ final = NoSignal
    /\ disk = {}
    /\ stopped = FALSE
    /\ observedStop = FALSE
    /\ served = {}
    /\ faults = 0
    /\ sleeps = 0
    /\ PureIdle

InitCrawl(es) == InitRun(es, "plain")

\* ScraperThread of GuiScraper_.py
Init == InitCrawl({"GuiScraper_"})

Next ==
    \/ RunStart
    \/ ScrapeEnter
    \/ ScrapeGet
    \/ ScrapeResp
    \/ AnchorStep
    \/ ResourceStep
    \/ ResourceGet
    \/ ResourceResp
    \/ Sleep
    \/ RunFinish
    \/ RunError
    \/ Stop

Spec == Init /\ [][Next]_vars

\* the steps of the worker thread: all but stop()
Work ==
    \/ RunStart
    \/ ScrapeEnter
    \/ ScrapeGet
    \/ ScrapeResp
    \/ AnchorStep
    \/ ResourceStep
    \/ ResourceGet
    \/ ResourceResp
    \/ Sleep
    \/ RunFinish
    \/ RunError

\* the worker thread is scheduled, session.get returns or raises within its
\* timeout and time.sleep returns; stop() may never be called
SpecLive == Init /\ [][Next]_vars /\ WF_vars(Work)

\* ScraperThread of GuiScraper_.py and of GuiScraper.py
InitGui == InitCrawl(GuiEngines)

SpecGui == InitGui /\ [][Next]_vars

\* the three engines
InitEngines == InitCrawl({"GuiScraper_", "GuiScraper", "Scraper"})

NextEngines ==
    \/ Next
    \/ CliStart
    \/ CliEnter
    \/ CliGet
    \/ CliResp
    \/ CliAnchor
    \/ CliImage
    \/ CliResourceGet
    \/ CliResourceResp
    \/ CliSleep
    \/ CliFinish

SpecEngines == InitEngines /\ [][NextEngines]_vars

\* ScraperThread of GuiScraper_.py and of GuiScraper.py on the second site
InitMirror == InitRun(GuiEngines, "markup")

SpecMirror == InitMirror /\ [][Next]_vars

\* the same two engines on the site whose pages link to their images
InitLeaf == InitRun(GuiEngines, "leaf")

SpecLeaf == InitLeaf /\ [][Next]_vars

\* the options of the runs on the site of DeepPages: a depth budget of up to
\* one hop more, no stylesheets and no scripts
DeepOptions ==
    [max_depth : 0..(MaxDepthOpt + 1), download_images : BOOLEAN,
     download_css : {FALSE}, download_js : {FALSE}]

\* the same two engines on the site of DeepPages
InitDeep ==
    /\ engine \in GuiEngines
    /\ site = "deep"
    /\ base_url \in Seeds
    /\ options \in DeepOptions
    /\ visited = {}
    /\ is_running = TRUE
    /\ runPc = "start"
    /\ stack = <<>>
    /\ inflight = {}
    /\ fetchLog = <<>>
    /\ progress = <<>>
    /\ final = NoSignal
    /\ disk = {}
    /\ stopped = FALSE
    /\ observedStop = FALSE
    /\ served = {}
    /\ faults = 0
    /\ sleeps = 0
    /\ PureIdle

SpecDeep == InitDeep /\ [][Next]_vars

-----------------------------------------------------------------------------
(* The window: WebScraperGUI, the ScraperThread it starts and the GitThreads
   it starts.  A signal of a thread is handled by its slot in the GUI thread
   some time after it was emitted. *)

\* the output directory, which GitThread.run makes the working directory
OutputDir == <<<<"o">>>>

\* the URLs typed into the window: a root page, and one urlparse rejects
AppSeeds == {uRoot, uBad}

\* the options set in the window
AppOptions == {o \in Options : o.max_depth = 0 /\ ~o.download_css /\ ~o.download_js}

\* the state after WebScraperGUI.__init__ and init_ui: no thread, Start
\* enabled, Stop and Push disabled
InitApp ==
    /\ engine = "GuiScraper_"
    /\ site = "app"
    /\ base_url = uRoot
    /\ options = NoOptions
    /\ visited = {} /\ is_running = TRUE /\ runPc = "off" /\ stack = <<>>
    /\ inflight = {} /\ fetchLog = <<>> /\ progress = <<>> /\ final = NoSignal
    /\ disk = {} /\ stopped = FALSE /\ observedStop = FALSE /\ served = {}
    /\ faults = 0 /\ sleeps = 0
    /\ u = NoUrl /\ v = NoUrl /\ r1 = NoUrl /\ r2 = NoUrl /\ npc = "off"
    /\ cwd = WorkDir
    /\ gui = [NoGui EXCEPT !.start_btn = TRUE]
    /\ git = NoGit

\* start_scraping: the Start button is clicked, with a URL and an output
\* directory typed in; a new ScraperThread is made and started
StartScraping ==
    /\ gui.start_btn
    /\ gui.runs < MaxRuns
    /\ gui' = [gui EXCEPT !.start_btn = FALSE, !.stop_btn = TRUE, !.push_btn = FALSE,
                          !.delivered = FALSE, !.runs = @ + 1]
    /\ base_url' \in AppSeeds
    /\ options' \in AppOptions
    /\ visited' = {} /\ is_running' = TRUE /\ runPc' = "start" /\ stack' = <<>>
    /\ final' = NoSignal
    /\ progress' = <<>>
    /\ fetchLog' = <<>> /\ stopped' = FALSE /\ observedStop' = FALSE
    /\ served' = {} /\ faults' = 0 /\ sleeps' = 0
    /\ UNCHANGED <<engine, site, inflight, disk, git, pureVars>>

\* a stop_scraping that gives the Start button back at once
AfterStopClickReleased(g) == [g EXCEPT !.stop_btn = FALSE, !.start_btn = TRUE]

\* stop_scraping: self.stop_btn.setEnabled(False)
AfterStopClick(g) == [g EXCEPT !.stop_btn = FALSE]

\* stop_scraping: the Stop button is clicked
StopScraping ==
    /\ gui.stop_btn
    /\ is_running' = FALSE
    /\ stopped' = TRUE
    /\ gui' = AfterStopClick(gui)
    /\ UNCHANGED <<engine, site, base_url, options, visited, runPc, stack, inflight,
                   fetchLog, progress, final, disk, observedStop, faults, sleeps,
                   served, git, pureVars>>

\* scraping_finished(count): the slot of ScraperThread.finished
ScrapingFinished ==
    /\ final.sig = "finished" /\ ~gui.delivered
    /\ gui' = [gui EXCEPT !.start_btn = TRUE, !.stop_btn = FALSE,
                          !.push_btn = IF final.n > 0 THEN TRUE ELSE @,
                          !.delivered = TRUE]
    /\ UNCHANGED <<crawlVars, git, pureVars>>

\* scraping_error(error): the slot of ScraperThread.error
ScrapingError ==
    /\ final.sig = "error" /\ ~gui.delivered
    /\ gui' = [gui EXCEPT !.start_btn = TRUE, !.stop_btn = FALSE, !.delivered = TRUE]
    /\ UNCHANGED <<crawlVars, git, pureVars>>

\* push_to_github: the Push button is clicked, with a repository URL typed
\* in and the output directory present; a new GitThread is made and started
PushToGithub ==
    /\ gui.push_btn
    /\ gui.pushes < MaxPushes
    /\ gui' = [gui EXCEPT !.push_btn = FALSE, !.pushes = @ + 1]
    /\ git' = [git EXCEPT !.started = @ + 1]
    /\ UNCHANGED <<crawlVars, pureVars>>

\* GitThread.run: os.chdir(self.repo_path)
GitChdir ==
    /\ git.started > 0
    /\ git' = [git EXCEPT !.started = @ - 1, !.working = @ + 1]
    /\ cwd' = OutputDir
    /\ UNCHANGED <<crawlVars, gui, u, r1, r2, npc, v>>

\* GitThread.run: git init, add, commit, remote, push in the output
\* directory, then finished.emit(True) or, from an except clause,
\* finished.emit(False)
GitEmit ==
    /\ git.working > 0
    /\ git' = [git EXCEPT !.working = @ - 1, !.emitted = @ + 1]
    /\ UNCHANGED <<crawlVars, gui, pureVars>>

\* git_finished(success): the slot of GitThread.finished
GitFinished ==
    /\ git.emitted > 0
    /\ git' = [git EXCEPT !.emitted = @ - 1]
    /\ gui' = [gui EXCEPT !.push_btn = TRUE]
    /\ UNCHANGED <<crawlVars, pureVars>>

\* the worker's steps, with the window left as it is
NextApp ==
    \/ StartScraping
    \/ StopScraping
    \/ ScrapingFinished
    \/ ScrapingError
    \/ PushToGithub
    \/ GitChdir
    \/ GitEmit
    \/ GitFinished
    \/ Work

SpecApp == InitApp /\ [][NextApp]_vars

-----------------------------------------------------------------------------
(* The URL functions on their own: every URL tail up to MaxLen characters *)

Chars == {"/", "a", ".", "?", "#"}

\* the tails of length n whose first character ends the network location
RECURSIVE TailsOfLen(_)
TailsOfLen(n) ==
    IF n = 0 THEN {<<>>}
    ELSE IF n = 1 THEN {<<c>> : c \in {"/", "?", "#"}}
    ELSE {Append(t, c) : t \in TailsOfLen(n - 1), c \in Chars}

Urls == {[host |-> "ex", tail |-> t] : t \in UNION {TailsOfLen(n) : n \in 0..MaxLen}}

CrawlIdleAt(seed) ==
    /\ engine = "GuiScraper_"
    /\ site = "plain"
    /\ base_url = seed
    /\ options = [max_depth |-> 0, download_images |-> FALSE,
                  download_css |-> FALSE, download_js |-> FALSE]
    /\ visited = {} /\ is_running = TRUE /\ runPc = "off" /\ stack = <<>>
    /\ inflight = {} /\ fetchLog = <<>> /\ progress = <<>> /\ final = NoSignal
    /\ disk = {} /\ stopped = FALSE /\ observedStop = FALSE /\ served = {}
    /\ faults = 0 /\ sleeps = 0
    /\ gui = NoGui /\ git = NoGit

CrawlIdle == CrawlIdleAt(uRoot)

InitNorm ==
    /\ CrawlIdle
    /\ u \in Urls
    /\ v = NoUrl /\ cwd = WorkDir
    /\ r1 = NoUrl /\ r2 = NoUrl
    /\ npc = "input"

\* normalize_url(u)
NormOnce ==
    /\ npc = "input"
    /\ r1' = normalize_url(u)
    /\ npc' = "once"
    /\ UNCHANGED <<u, v, cwd, r2, crawlVars, appVars>>

\* normalize_url(normalize_url(u))
NormTwice ==
    /\ npc = "once"
    /\ r2' = normalize_url(r1)
    /\ npc' = "twice"
    /\ UNCHANGED <<u, v, cwd, r1, crawlVars, appVars>>

NextNorm == NormOnce \/ NormTwice

SpecNorm == InitNorm /\ [][NextNorm]_vars

-----------------------------------------------------------------------------
(* save_page on its own: the path it writes for every URL *)

\* save_page(u, content): None for a path with a .git segment, otherwise
\* the path of the file written, relative to output_dir
SavePage ==
    /\ npc = "input"
    /\ r1' = IF SaveSkipped(u) THEN NoUrl ELSE RelRef(SavePath(u))
    /\ npc' = "saved"
    /\ UNCHANGED <<u, v, cwd, r2, crawlVars, appVars>>

NextPath == SavePage

SpecPath == InitNorm /\ [][NextPath]_vars

-----------------------------------------------------------------------------
(* get_relative_path on its own: every pair of URLs of up to MaxSegs path
   segments, under a working directory at the root or one level below it *)

SegNames == {<<"a">>, <<"b">>, <<"c", ".", "h">>, DotDot, <<>>, <<"x", "\\", "y">>}

RECURSIVE SegLists(_)
SegLists(n) ==
    IF n = 0 THEN {<<>>}
    ELSE LET shorter == SegLists(n - 1)
         IN  shorter \cup {Append(l, g) : l \in shorter, g \in SegNames}

PathUrls == {[host |-> "ex", tail |-> <<"/">> \o JoinSlash(l)] : l \in SegLists(MaxSegs)}

Cwds == {<<>>, WorkDir}

InitRel ==
    /\ CrawlIdle
    /\ u \in PathUrls /\ v \in PathUrls
    /\ cwd \in Cwds
    /\ r1 = NoUrl /\ r2 = NoUrl
    /\ npc = "input"

\* get_relative_path(u, v)
RelLink ==
    /\ npc = "input"
    /\ r1' = RelRef(get_relative_path(u, v))
    /\ npc' = "rel"
    /\ UNCHANGED <<u, v, cwd, r2, crawlVars, appVars>>

\* os.path.join(a, b) of relative paths
JoinPath(a, b) ==
    IF a = <<>> THEN b
    ELSE IF EndsWithSlash(a) THEN a \o b
    ELSE a \o <<"/">> \o b

\* the file a relative reference names, read from the directory of the file
\* save_page wrote for the page
Resolve(page_url, ref) == normpath(JoinPath(dirname(SavePath(page_url)), ref))

\* the rewritten reference is followed from the saved page
RelResolve ==
    /\ npc = "rel"
    /\ r2' = RelRef(Resolve(u, r1.tail))
    /\ npc' = "resolved"
    /\ UNCHANGED <<u, v, cwd, r1, crawlVars, appVars>>

NextRel == RelLink \/ RelResolve

SpecRel == InitRel /\ [][NextRel]_vars

-----------------------------------------------------------------------------
(* The two path mappings side by side: the target get_relative_path computes
   for a URL, and the file save_page writes for the URL as scrape_page passes
   it on, normalized; URLs with path parameters included *)

ParamChars == {"/", "a", ".", ";", "#"}

RECURSIVE ParamTailsOfLen(_)
ParamTailsOfLen(n) ==
    IF n = 0 THEN {<<>>}
    ELSE IF n = 1 THEN {<<"/">>}
    ELSE {Append(t, c) : t \in ParamTailsOfLen(n - 1), c \in ParamChars}

ParamUrls ==
    {[host |-> "ex", tail |-> t] : t \in UNION {ParamTailsOfLen(n) : n \in 0..MaxLen}}

InitMap ==
    /\ CrawlIdle
    /\ u \in ParamUrls
    /\ v = NoUrl /\ cwd = WorkDir
    /\ r1 = NoUrl /\ r2 = NoUrl
    /\ npc = "input"

\* get_relative_path(from_url, u): the to_path it computes
MapTarget ==
    /\ npc = "input"
    /\ r1' = RelRef(MappedPath(u))
    /\ npc' = "target"
    /\ UNCHANGED <<u, v, cwd, r2, crawlVars, appVars>>

\* scrape_page(u): url = self.normalize_url(url), and later
\* save_page(url, ...): the path of the file written
SaveNormalized ==
    /\ npc = "target"
    /\ v' = normalize_url(u)
    /\ r2' = IF SaveSkipped(normalize_url(u)) THEN NoUrl
             ELSE RelRef(SavePath(normalize_url(u)))
    /\ npc' = "mapped"
    /\ UNCHANGED <<u, cwd, r1, crawlVars, appVars>>

NextMap == MapTarget \/ SaveNormalized

SpecMap == InitMap /\ [][NextMap]_vars

-----------------------------------------------------------------------------
(* is_valid_url on its own: two candidates against every seed *)

ScopeHosts == {"ex", "ot"}

ScopeUrls ==
    {[host |-> h, tail |-> t] :
        h \in ScopeHosts, t \in UNION {TailsOfLen(n) : n \in 0..(MaxLen - 2)}}

ScopeSeeds == {uRoot, uOther}

InitScope ==
    /\ \E seed \in ScopeSeeds : CrawlIdleAt(seed)
    /\ u \in ScopeUrls /\ v \in ScopeUrls
    /\ cwd = WorkDir
    /\ r1 = NoUrl /\ r2 = NoUrl
    /\ npc = "input"

\* a result of the harness that is not a URL
Result(x) == [host |-> "", tail |-> <<x>>]

\* is_valid_url(u)
ScopeFirst ==
    /\ npc = "input"
    /\ r1' = Result(is_valid_url(u))
    /\ npc' = "once"
    /\ UNCHANGED <<u, v, cwd, r2, crawlVars, appVars>>

\* is_valid_url(v)
ScopeSecond ==
    /\ npc = "once"
    /\ r2' = Result(is_valid_url(v))
    /\ npc' = "twice"
    /\ UNCHANGED <<u, v, cwd, r1, crawlVars, appVars>>

NextScope == ScopeFirst \/ ScopeSecond

SpecScope == InitScope /\ [][NextScope]_vars

-----------------------------------------------------------------------------
(* Properties of the crawl *)

FetchIdx == DOMAIN fetchLog
LineIdx == DOMAIN progress

\* the exception texts of a failed request
RequestFailures == {"RequestException", "TooManyRedirects"}

\* the anchor edges of the pages parsed so far: page URL -> normalized target
Links ==
    UNION {{<<s.url, Normalized(urljoin(s.url, s.page.anchors[i]))>> :
               i \in {j \in DOMAIN s.page.anchors : ~Malformed(s.page.anchors[j])}} :
           s \in served}

\* the URLs within k hops of the seed along the edges of links
RECURSIVE Hops(_, _)
Hops(k, links) ==
    IF k = 0 THEN {Normalized(base_url)}
    ELSE LET near == Hops(k - 1, links)
         IN  near \cup {l[2] : l \in {m \in links : m[1] \in near}}

\* the URLs within k anchor hops of the seed
Within(k) == LET links == Links IN Hops(k, links)

PageFetched(url) == \E i \in FetchIdx : fetchLog[i].fn = "scrape_page" /\ fetchLog[i].url = url

\* C1 (No revisit): no URL has a fetch started for it more than once,
\* whether by scrape_page or by download_resource.
C1_NoRevisit ==
    \A i, j \in FetchIdx : i # j => fetchLog[i].url # fetchLog[j].url

\* C2 (Depth bound): every page scrape_page starts a fetch for lies within
\* options['max_depth'] anchor hops of the seed.
C2_DepthBound ==
    LET reach == Within(options.max_depth)
    IN  \A i \in FetchIdx : fetchLog[i].fn = "scrape_page" => fetchLog[i].url \in reach

\* a finished, unstopped run that found an in-scope link deeper than
\* max_depth and fetched no page for it
C2_Witness ==
    /\ runPc = "done" /\ ~stopped
    /\ LET reach == Within(options.max_depth)
       IN  \E l \in Links :
              /\ is_valid_url(l[2]) /\ ~GitInPath(l[2])
              /\ l[2] \notin reach
              /\ ~PageFetched(l[2])

\* C3 as claimed (Cancellation): no fetch starts once stop() has set
\* is_running to False.
C3_NoFetchAfterStop ==
    \A i \in FetchIdx : ~fetchLog[i].stopped

\* C3 as amended: no fetch starts once the worker has read is_running as
\* False; a fetch that starts after stop() is one whose flag check came
\* before stop().
C3_NoFetchAfterObservedStop ==
    \A i \in FetchIdx : ~fetchLog[i].observed

\* a run that ended after the worker saw the flag, with a fetch that had
\* started between stop() and that check
C3_Witness ==
    /\ runPc = "done" /\ observedStop
    /\ \E i \in FetchIdx : fetchLog[i].stopped

\* C4 (Visited before fetch): a URL whose fetch is in progress is in the
\* visited set, and was when the fetch started.
C4_VisitedBeforeFetch ==
    /\ inflight \subseteq visited
    /\ \A i \in FetchIdx : fetchLog[i].marked

\* a resource fetch in progress below a page whose own fetch is over
C4_Witness ==
    /\ stack # <<>> /\ Top.fn = "download_resource" /\ Top.pc = "resp"
    /\ Top.url \in inflight
    /\ \E i \in FetchIdx : fetchLog[i].fn = "scrape_page"

\* C5 (Stopped outcome): when run() finds is_running False after the
\* top-level scrape_page has returned, it emits 'Scraping stopped by user'
\* and finished(0), whatever has been visited or saved.
C5_StoppedOutcome ==
    [][(runPc = "crawl" /\ stack = <<>> /\ ~is_running /\ runPc' = "done")
        => /\ final' = Finished(0)
           /\ progress' = Append(progress, Line("Stopped", NoUrl, ""))]_vars

\* a stopped run that had saved two files or more and reported 0
C5_Witness ==
    /\ runPc = "done" /\ stopped
    /\ Cardinality(disk) >= 2 /\ Cardinality(visited) >= 2
    /\ final = Finished(0)

\* C6 (Distinguishable outcome): the final signal of a run that ended with
\* no stop request differs from finished(0), the final signal of a stopped
\* run.
C6_StopDistinguishable ==
    (runPc = "done" /\ ~stopped) => final # Finished(0)

\* the seed request failed (it is the first request of the run, so nothing
\* had been saved)
SeedFetchFailed ==
    \E i \in LineIdx :
        /\ progress[i].line \in {"Error", "TooManyRedirects"}
        /\ progress[i].e \in RequestFailures
        /\ progress[i].url = Normalized(base_url)

\* C7 (Seed failure): a run whose seed fetch failed ends with the error
\* signal.
C7_SeedFailureIsError ==
    (runPc = "done" /\ SeedFetchFailed) => final.sig = "error"

\* the references of a parsed page that scrape_page passes on
AnchorDue(s, i) ==
    LET href == s.page.anchors[i]
        target == Normalized(urljoin(s.url, href))
    IN  /\ ~GitInHref(href) /\ ~AnchorSkipped(href)
        /\ is_valid_url(target) /\ ~GitInPath(target)
        /\ s.depth + 1 <= options.max_depth

ResourceDue(s, src) ==
    /\ ~GitInHref(src)
    /\ is_valid_url(urljoin(s.url, src)) /\ ~GitInPath(urljoin(s.url, src))

AllRefs(page) ==
    {page.anchors[i] : i \in DOMAIN page.anchors}
        \cup {page.imgs[i] : i \in DOMAIN page.imgs}
        \cup {page.css[i] : i \in DOMAIN page.css}
        \cup {page.js[i] : i \in DOMAIN page.js}

WellFormed(page) == \A ref \in AllRefs(page) : ~Malformed(ref)

SiblingsProcessed(s) ==
    /\ \A i \in DOMAIN s.page.anchors :
          AnchorDue(s, i) => Normalized(urljoin(s.url, s.page.anchors[i])) \in visited
    /\ options.download_images =>
          \A i \in DOMAIN s.page.imgs :
             ResourceDue(s, s.page.imgs[i]) =>
                Normalized(urljoin(s.url, s.page.imgs[i])) \in visited
    /\ options.download_css =>
          \A i \in DOMAIN s.page.css :
             ResourceDue(s, s.page.css[i]) =>
                Normalized(urljoin(s.url, s.page.css[i])) \in visited
    /\ options.download_js =>
          \A i \in DOMAIN s.page.js :
             ResourceDue(s, s.page.js[i]) =>
                Normalized(urljoin(s.url, s.page.js[i])) \in visited

\* C8 (Per-URL failure isolation): a failed fetch is logged with one
\* diagnostic line and abandons only its own branch: the run never ends with
\* the error signal because of it, and at the end of an unstopped run every
\* link and resource of every parsed page has been dispatched, whatever
\* fetches failed in between.
C8_FailureIsolation ==
    /\ Cardinality({i \in LineIdx : progress[i].e \in RequestFailures \cup {"OSError"}})
          = faults
    /\ final.sig = "error" => (Malformed(base_url) /\ faults = 0)
    /\ (runPc = "done" /\ ~stopped) =>
          /\ (~Malformed(base_url) => final.sig = "finished")
          /\ \A s \in served : WellFormed(s.page) => SiblingsProcessed(s)

\* an unstopped run in which a page other than the seed failed to load and a
\* later sibling was still crawled
C8_Witness ==
    /\ runPc = "done" /\ ~stopped /\ final.sig = "finished"
    /\ \E i, j \in LineIdx :
          /\ i < j
          /\ progress[i].e \in RequestFailures
          /\ progress[i].url # Normalized(base_url)
          /\ progress[j].line = "Saved"

\* C9 (Fatal filesystem errors): a run in which save_page could not create
\* the directory or write the file ends with the error signal.
C9_WriteFailureIsFatal ==
    (runPc = "done" /\ \E i \in LineIdx : progress[i].e = "OSError")
        => final.sig = "error"

-----------------------------------------------------------------------------
(* Properties of the URL functions *)

\* C10 (Idempotent normalization): normalize_url(normalize_url(u)) equals
\* normalize_url(u), for URLs with a query string or a fragment too.
C10_NormalizeIdempotent ==
    npc = "twice" => r2 = r1

\* the path mapping as the rule states it: the URL path without its leading
\* "/", and index.html appended when that is empty, ends in "/", or has a
\* last segment with no "."
RulePath(url) ==
    LET path == StripLeft(PathOf(url))
    IN  IF path = <<>> \/ EndsWithSlash(path) \/ ~Contains(Basename(path), <<".">>)
        THEN JoinIndex(path)
        ELSE path

\* C11 (Path mapping rule): the path save_page writes for a URL is the URL
\* path without its leading "/", with index.html appended exactly when that
\* path is empty, ends in "/" or has a last segment without "."; so a URL
\* whose path ends in "/" is saved as <path>/index.html.
C11_PathMappingRule ==
    (npc = "saved" /\ r1 # NoUrl) =>
        /\ normpath(r1.tail) = normpath(RulePath(u))
        /\ EndsWithSlash(PathOf(u)) => r1.tail[Len(r1.tail)] = "index.html"

\* C12 (Relative-link round trip): the reference get_relative_path(from, to)
\* returns, resolved from the directory of the file saved for 'from', names
\* the file saved for 'to', and holds no backslash.
C12_RelativeRoundTrip ==
    npc = "resolved" =>
        /\ r2.tail = normpath(SavePath(v))
        /\ ~Contains(r1.tail, <<"\\">>)

\* C13 (Scope symmetry): is_valid_url gives two candidates of the same
\* network location the same result whatever their paths, queries and
\* fragments, and the result is true exactly when that network location is
\* the seed's.
C13_ScopeSymmetry ==
    npc = "twice" =>
        /\ u.host = v.host => r1 = r2
        /\ r1 = Result(u.host = base_url.host)
        /\ r2 = Result(v.host = base_url.host)

\* two candidates on the seed's host, one with a path and a query, the
\* other with a fragment, both found in scope
C13_Witness ==
    /\ npc = "twice"
    /\ u.host = base_url.host /\ v.host = base_url.host
    /\ Contains(u.tail, <<"?">>) /\ Contains(v.tail, <<"#">>)
    /\ PathOf(u) # PathOf(v)
    /\ r1 = Result(TRUE) /\ r2 = Result(TRUE)

-----------------------------------------------------------------------------
(* Properties of the mirror: what is fetched and what is written *)

\* the URL has a path segment '.git'
HasGitSegment(url) == GitPattern \in Segments(PathOf(url))

FetchedUrls == {fetchLog[i].url : i \in FetchIdx}

\* the saved markup files whose links save_page rewrote
RewrittenFiles == {f \in disk : f.is_html /\ f.body # f.received}

Kinds == {"anchors", "imgs", "css", "js"}

\* C14 (VCS exclusion): a URL with a '.git' path segment, be it the seed, an
\* anchor target or a resource reference, never has a fetch started for it
\* and is never in the visited set.
C14_VcsExclusion ==
    /\ \A x \in FetchedUrls \cup inflight \cup visited : ~HasGitSegment(x)
    /\ \A k \in DOMAIN stack : stack[k].pc # "enter" => ~HasGitSegment(stack[k].url)

\* an unstopped run over a page with a .git anchor it had the depth to
\* follow and a page with a .git image followed by an image it downloaded
C14_Witness ==
    /\ runPc = "done" /\ ~stopped /\ options.download_images
    /\ \E s \in served :
          /\ s.depth < options.max_depth
          /\ \E k \in DOMAIN s.page.anchors : HasGitSegment(urljoin(s.url, s.page.anchors[k]))
    /\ \E s \in served :
          /\ \E k \in DOMAIN s.page.imgs : HasGitSegment(urljoin(s.url, s.page.imgs[k]))
          /\ \E i \in FetchIdx : fetchLog[i].via = "img"

\* the reference resolves to another network location than the seed's
OutOfScope(url, ref) == ~Malformed(ref) /\ urljoin(url, ref).host # base_url.host

\* C15 (Out-of-scope references): a reference of a fetched page that
\* resolves to another network location than the seed's never has a fetch
\* started for it, and its attribute has its original value in the file
\* save_page writes.
C15_OutOfScopeUntouched ==
    /\ \A x \in FetchedUrls : x.host = base_url.host
    /\ \A f \in disk : \A kind \in Kinds : \A k \in DOMAIN f.received[kind] :
          OutOfScope(f.url, f.received[kind][k]) => f.body[kind][k] = f.received[kind][k]

\* a page saved with rewritten links and a link to another host left as it
\* was, at the end of a run that had the depth to follow links
C15_Witness ==
    /\ runPc = "done" /\ ~stopped /\ options.max_depth > 0
    /\ \E f \in RewrittenFiles : \E k \in DOMAIN f.received.anchors :
          /\ f.received.anchors[k] = uOther
          /\ f.body.anchors[k] = uOther

\* C16 (Resource toggles gate downloads): download_resource is called for
\* an img src only when options['download_images'] is set, for a stylesheet
\* href only when download_css is, for a script src only when download_js
\* is; so no fetch is made through a reference whose option is off.
C16_TogglesGateDownloads ==
    LET On(pc) == \/ pc = "img" /\ options.download_images
                  \/ pc = "css" /\ options.download_css
                  \/ pc = "js" /\ options.download_js
    IN  /\ \A i \in FetchIdx :
              fetchLog[i].fn = "download_resource" => On(fetchLog[i].via)
        /\ \A k \in DOMAIN stack :
              stack[k].fn = "download_resource" => (k > 1 /\ On(stack[k - 1].pc))

\* an unstopped run with images off and stylesheets on, over a page holding
\* an in-scope image and a stylesheet: the stylesheet was fetched, the image
\* was not
C16_Witness ==
    /\ runPc = "done" /\ ~stopped
    /\ ~options.download_images /\ options.download_css
    /\ \E s \in served :
          /\ \E k \in DOMAIN s.page.imgs : s.page.imgs[k] = uImg
          /\ \E k \in DOMAIN s.page.css : urljoin(s.url, s.page.css[k]) = uCss
    /\ uCss \in FetchedUrls
    /\ uImg \notin FetchedUrls \cup visited

\* C17 (Resource toggles gate rewriting): in a saved page the references of
\* a resource kind whose option is off keep their original values; with
\* download_images off every img src is as it was received.
C17_TogglesGateRewriting ==
    \A f \in disk :
        /\ ~options.download_images => f.body.imgs = f.received.imgs
        /\ ~options.download_css => f.body.css = f.received.css
        /\ ~options.download_js => f.body.js = f.received.js

\* the pages the anchors of a parsed page lead to: in scope, not under .git
Targets(s) ==
    {Normalized(urljoin(s.url, s.page.anchors[k])) :
        k \in {j \in DOMAIN s.page.anchors :
                  LET href == s.page.anchors[j]
                  IN  /\ ~GitInHref(href) /\ ~AnchorSkipped(href) /\ ~Malformed(href)
                      /\ is_valid_url(urljoin(s.url, href))
                      /\ ~GitInPath(urljoin(s.url, href))}}

\* max_depth 1, no resources: the seed page links to /a alone, and the page
\* at /a links to /b
SeedAboutTeam ==
    /\ options.max_depth = 1
    /\ ~options.download_images /\ ~options.download_css /\ ~options.download_js
    /\ \E s0, s1 \in served :
          /\ s0.url = Normalized(base_url) /\ s0.depth = 0
          /\ Targets(s0) = {Normalized(uA)}
          /\ s1.url = Normalized(uA)
          /\ Normalized(uB) \in Targets(s1)

\* C18 (Reported count): at the end of a run that was never stopped,
\* finished carries the size of the visited set, which is the number of
\* distinct URLs a fetch was started for, pages and resources, failed or
\* not; with max_depth 1, a seed linking to /a and /a linking to /b, /b is
\* not fetched and the count is 2.
C18_ReportedCount ==
    (runPc = "done" /\ ~stopped /\ final.sig = "finished") =>
        /\ final.n = Cardinality(visited)
        /\ visited = FetchedUrls
        /\ SeedAboutTeam => (final.n = 2 /\ Normalized(uB) \notin FetchedUrls)

\* the run of the example, ended with the count 2
C18_Witness ==
    /\ runPc = "done" /\ ~stopped
    /\ SeedAboutTeam
    /\ final = Finished(2)

\* C19 (Rewriter leaves special references untouched): an anchor or link
\* reference that is fragment-only ('#...') or 'javascript:...' has, in the
\* file save_page writes, the value it had in the response.
C19_SpecialRefsUntouched ==
    \A f \in disk : \A kind \in {"anchors", "css"} : \A k \in DOMAIN f.received[kind] :
        FragmentOrScript(f.received[kind][k]) => f.body[kind][k] = f.received[kind][k]

WarningIdx == {i \in LineIdx : progress[i].line = "Warning"}

\* what holds of every failure inside the try of save_page: the warning is
\* followed by the Saved line of scrape_page, the file holds the response
\* body as received, and the run does not end with the error signal
SavedAsReceived(i) ==
    /\ i < Len(progress) /\ progress[i + 1] = Line("Saved", progress[i].url, "")
    /\ \E f \in disk : f.url = progress[i].url /\ f.is_html /\ f.body = f.received
    /\ final.sig # "error"

\* scrape_page went on to extract the links of the page
LinksExtracted(url) == \E s \in served : s.url = url

\* every markup file holds the response body, either as received or with
\* all its references rewritten
WholeFiles ==
    \A f \in disk : f.is_html =>
        (f.body = f.received \/ f.body = Rewritten(f.url, f.received))

-----------------------------------------------------------------------------
(* Properties of the traversal *)

\* the response is classified Binary: its content type holds neither 'html'
\* nor 'xml' nor 'application/rss' (the bodies of the sites do not start
\* like an XML document)
Binary(page) == page.ctype = "application/octet-stream"

\* the fetches made by download_resource
ResourceUrls == {fetchLog[i].url : i \in {j \in FetchIdx : fetchLog[j].fn = "download_resource"}}

\* C21 (Binary pass-through): the file written for a response classified
\* Binary, and the file written for every resource download_resource saves,
\* holds the response body as it was received.
C21_BinaryPassThrough ==
    /\ \A s \in served : Binary(s.page) =>
          \A f \in disk : f.url = s.url /\ f.received = Original(s.page) => f.body = f.received
    /\ \A f \in disk : ~f.is_html => f.body = f.received
    /\ \A x \in ResourceUrls : \A f \in disk : f.url = x => ~f.is_html

\* an unstopped run that saved a Binary page and a resource, each holding a
\* link that save_page changes in a markup page
C21_Witness ==
    /\ runPc = "done" /\ ~stopped
    /\ \E s \in served : \E f \in disk :
          /\ Binary(s.page) /\ f.url = s.url
          /\ f.body = Original(s.page)
          /\ Rewritten(f.url, f.received) # f.received
    /\ \E x \in ResourceUrls : \E f \in disk :
          /\ f.url = x
          /\ Rewritten(f.url, f.received) # f.received
          /\ f.body = f.received

\* C25 (Link extraction is gated by classification): a response classified
\* Binary never causes a further fetch: no fetch is made from a loop of
\* scrape_page over the references of such a response.
C25_ExtractionGated ==
    \A i \in FetchIdx : \A s \in served :
        s.url = fetchLog[i].parent => ~Binary(s.page)

\* the place of a loop in scrape_page
LoopRank(via) ==
    CASE via = "run" -> 0
      [] via = "a"   -> 1
      [] via = "img" -> 2
      [] via = "css" -> 3
      [] via = "js"  -> 4

\* the fetch of the page a fetch was made from, 0 for the seed's
ParentIdx(i) ==
    IF fetchLog[i].parent = NoUrl THEN 0
    ELSE CHOOSE j \in FetchIdx \cup {0} :
            \/ j # 0 /\ fetchLog[j].fn = "scrape_page" /\ fetchLog[j].url = fetchLog[i].parent
            \/ j = 0 /\ \A k \in FetchIdx :
                           ~(fetchLog[k].fn = "scrape_page" /\ fetchLog[k].url = fetchLog[i].parent)

\* the fetches a fetch descends from, itself included
RECURSIVE Lineage(_)
Lineage(i) == IF i = 0 THEN {} ELSE {i} \cup Lineage(ParentIdx(i))

\* fetch j is made in the crawl of the page of fetch i
Below(i, j) == i \in Lineage(j)

\* C26 (Traversal order): fetches are made depth first and in document
\* order: a page is fetched before anything reached from it; the fetches
\* made from one page follow the order of its loops (anchors, images,
\* stylesheets, scripts) and within a loop the order of the references; and
\* all that is crawled below one anchor is fetched before the next
\* reference of the page is considered.
C26_TraversalOrder ==
    /\ \A i \in FetchIdx :
          /\ fetchLog[i].parent = NoUrl <=> i = 1
          /\ i > 1 => (ParentIdx(i) # 0 /\ ParentIdx(i) < i)
          /\ (i > 1 /\ fetchLog[i].via = "a") =>
                fetchLog[i].depth = fetchLog[ParentIdx(i)].depth + 1
    /\ \A i, j \in FetchIdx :
          (i < j /\ fetchLog[i].parent = fetchLog[j].parent) =>
             \/ LoopRank(fetchLog[i].via) < LoopRank(fetchLog[j].via)
             \/ /\ fetchLog[i].via = fetchLog[j].via
                /\ fetchLog[i].ref < fetchLog[j].ref
    /\ \A i, m, j \in FetchIdx :
          (i < m /\ m < j /\ Below(i, j)) => Below(i, m)

\* an unstopped run in which a page had two anchors followed, a resource
\* fetched from the first one's page in between, and resources of its own
\* fetched after both
C26_Witness ==
    /\ runPc = "done" /\ ~stopped
    /\ \E i, m, j, k \in FetchIdx :
          /\ i < m /\ m < j /\ j < k
          /\ fetchLog[i].via = "a" /\ fetchLog[j].via = "a"
          /\ fetchLog[i].parent = fetchLog[j].parent
          /\ fetchLog[k].parent = fetchLog[j].parent
          /\ fetchLog[k].fn = "download_resource"
          /\ fetchLog[m].parent = fetchLog[i].url
          /\ fetchLog[m].fn = "download_resource"

\* a step in which a call of scrape_page returns from its first lines: the
\* flag is set, the URL is visited, too deep, or under .git
SkippedCall ==
    /\ stack # <<>> /\ Top.fn = "scrape_page" /\ Top.pc = "enter"
    /\ runPc' = runPc
    /\ stack' = SubSeq(stack, 1, Len(stack) - 1)

\* the anchors of the parsed pages that are within max_depth have all been
\* fetched, whatever calls were skipped before
DueAnchorsFetched ==
    \A s \in served : WellFormed(s.page) =>
        \A k \in DOMAIN s.page.anchors :
            AnchorDue(s, k) =>
                Normalized(urljoin(s.url, s.page.anchors[k])) \in FetchedUrls

\* C27 (Skipped calls have no effect): a call of scrape_page that returns
\* because the flag is set, the URL is visited, the depth exceeds max_depth
\* or the path holds '.git' leaves the visited set as it was, starts no
\* fetch and emits no progress line; so a URL rejected for its depth is
\* fetched when it is reached again within max_depth.
C27_SkippedCallsNoEffect ==
    /\ [][SkippedCall => /\ visited' = visited
                          /\ fetchLog' = fetchLog /\ inflight' = inflight
                          /\ progress' = progress /\ disk' = disk]_vars
    /\ []((runPc = "done" /\ ~stopped) => DueAnchorsFetched)

\* an unstopped run in which a page at depth max_depth linked to a URL that
\* was fetched later, from a page nearer to the seed
C27_Witness ==
    /\ runPc = "done" /\ ~stopped
    /\ \E s \in served : \E k \in DOMAIN s.page.anchors : \E i, j \in FetchIdx :
          /\ WellFormed(s.page)
          /\ s.depth = options.max_depth
          /\ fetchLog[i].url = s.url /\ fetchLog[i].fn = "scrape_page"
          /\ i < j
          /\ fetchLog[j].fn = "scrape_page"
          /\ fetchLog[j].url = Normalized(urljoin(s.url, s.page.anchors[k]))
          /\ fetchLog[j].depth <= options.max_depth
          /\ fetchLog[j].parent # s.url

\* C28 (Throttle skipped on cancellation): the sleep at the end of a
\* scrape_page step is not executed when the flag has been set during the
\* step: time.sleep is only ever called with is_running still True.
C28_ThrottleSkippedOnCancel ==
    [][sleeps' # sleeps => is_running]_vars

\* C29 (Resources are leaves): a URL download_resource fetches is saved as
\* received, nothing is called from download_resource and no fetch is made
\* from its response, and the URL is not crawled as a page afterwards.
C29_ResourcesAreLeaves ==
    /\ \A k \in DOMAIN stack :
          stack[k].fn = "download_resource" =>
             (k = Len(stack) /\ stack[k].pc \in {"get", "resp"})
    /\ \A i \in FetchIdx :
          fetchLog[i].fn = "download_resource" =>
             /\ \A j \in FetchIdx :
                   j > i => ~(fetchLog[j].fn = "scrape_page"
                               /\ fetchLog[j].url = fetchLog[i].url)
             /\ \A j \in FetchIdx :
                   (j > i /\ fetchLog[j].parent = fetchLog[i].url) =>
                      \E p \in FetchIdx :
                         /\ p < i /\ fetchLog[p].fn = "scrape_page"
                         /\ fetchLog[p].url = fetchLog[i].url
             /\ \A f \in disk :
                   (f.url = fetchLog[i].url /\ ~f.is_html) => f.body = f.received

\* an unstopped run in which a URL was downloaded as a resource, saved as
\* received, and left alone when a link to it, within max_depth, was found
C29_Witness ==
    /\ runPc = "done" /\ ~stopped
    /\ \E i \in FetchIdx : \E s \in served : \E k \in DOMAIN s.page.anchors :
          /\ fetchLog[i].fn = "download_resource"
          /\ WellFormed(s.page) /\ AnchorDue(s, k)
          /\ Normalized(urljoin(s.url, s.page.anchors[k])) = fetchLog[i].url
          /\ ~PageFetched(fetchLog[i].url)
          /\ \E f \in disk : f.url = fetchLog[i].url /\ f.body = f.received
                               /\ Rewritten(f.url, f.received) # f.received

\* C30 (Malformed links are dropped individually): a reference on which
\* urljoin or normalize_url raises is dropped alone: at the end of an
\* unstopped run every other anchor and resource reference of every parsed
\* page has been processed, those that follow a malformed one included.
C30_MalformedLinksDropped ==
    (runPc = "done" /\ ~stopped) => \A s \in served : SiblingsProcessed(s)

\* every fetch so far has added a URL to the visited set
FetchesGrowVisited == Len(fetchLog) <= Cardinality(visited)

\* scrape_page is never entered deeper than max_depth + 1
DepthBounded == \A k \in DOMAIN stack : stack[k].depth <= options.max_depth + 1

\* run() reaches its end and emits finished or error
Terminates == <>(runPc = "done" /\ final # NoSignal)

\* C24 (Termination): on a finite site where every fetch completes or
\* fails, every run, stopped or not, reaches the end of run() and emits its
\* final signal; each fetch strictly grows the visited set and scrape_page
\* is never entered deeper than max_depth + 1.
C24_Termination ==
    /\ Terminates
    /\ []DepthBounded
    /\ []FetchesGrowVisited

-----------------------------------------------------------------------------
(* Properties of the window *)

\* a ScraperThread has been started and has not emitted its final signal
ScraperActive == runPc \in {"start", "crawl", "raised"}

\* a GitThread has been started and has not emitted finished
GitRunning == git.started + git.working > 0

\* C22 (Exclusive ownership of the Mirror Root): whatever is clicked and
\* whenever the threads end, no GitThread is running while a ScraperThread
\* is active.
C22_ExclusiveMirrorRoot ==
    ~(GitRunning /\ ScraperActive)

\* C23 (Strictly sequential fetching): a ScraperThread is started only when
\* none is active, at most one fetch is in flight at any time, and the
\* Start button is disabled from start_scraping until the slot of the run's
\* finished or error signal has run.
C23_SequentialFetching ==
    /\ [][gui'.runs # gui.runs => (~ScraperActive /\ inflight = {})]_vars
    /\ [](Cardinality(inflight) <= 1)
    /\ [](gui.start_btn => (runPc = "off" \/ (runPc = "done" /\ gui.delivered)))

\* the second run of a session, stopped by a click while it is fetching,
\* after a first run that ended
C23_Witness ==
    /\ gui.runs = 2 /\ ~gui.start_btn
    /\ runPc = "crawl" /\ inflight # {} /\ stopped

-----------------------------------------------------------------------------
(* Properties of the crawl as a whole *)

\* a fetch was started for the URL, by scrape_page or by download_resource
Fetched(url) == \E i \in FetchIdx : fetchLog[i].url = url

\* C31 (Crawl completeness within the depth budget): at the end of a run
\* that was never stopped and in which no fetch and no write failed, every
\* in-scope URL outside .git that lies within options['max_depth'] anchor
\* hops of the seed, along the links of the pages served, has been fetched.
C31_CrawlComplete ==
    (runPc = "done" /\ ~stopped /\ faults = 0 /\ final.sig = "finished") =>
        \A url \in Within(options.max_depth) :
            (is_valid_url(url) /\ ~GitInPath(url)) => Fetched(url)

\* C32 (Bounded response to stop): a fetch started after stop() has set
\* is_running to False is the last fetch of the run, and its flag check came
\* before stop(); once the worker has read the flag as False, no step of it
\* starts a fetch or calls scrape_page or download_resource: each turn
\* returns or falls through to the end of the function.
C32_BoundedStop ==
    /\ [](\A i \in FetchIdx :
             fetchLog[i].stopped => (i = Len(fetchLog) /\ ~fetchLog[i].observed))
    /\ [][observedStop => (fetchLog' = fetchLog /\ Len(stack') <= Len(stack))]_vars

\* a run that was stopped between the flag check of a nested scrape_page and
\* its request, and ended with a link of an outer page never fetched
C32_Witness ==
    /\ runPc = "done" /\ final = StoppedSignal
    /\ Len(fetchLog) >= 2
    /\ fetchLog[Len(fetchLog)].stopped
    /\ fetchLog[Len(fetchLog)].fn = "scrape_page"
    /\ \E s \in served : \E i \in DOMAIN s.page.anchors :
          /\ s.depth < options.max_depth
          /\ ~Malformed(s.page.anchors[i])
          /\ LET target == Normalized(urljoin(s.url, s.page.anchors[i]))
             IN  is_valid_url(target) /\ ~GitInPath(target) /\ ~Fetched(target)

\* C33 (Exactly one final signal): a run() that has returned has emitted
\* finished(n) or error(msg), and emitted it once, as its last step; no
\* progress line and no fetch follows it; and finished(n) with n > 0 is
\* emitted only by a run() that read is_running as True after
\* scrape_page(base_url) had returned.  (That run() does return, when the
\* worker is scheduled, is Terminates.)
C33_OneFinalSignal ==
    /\ [](runPc = "done" <=> final.sig \in {"finished", "error"})
    /\ [](final.sig \in {"none", "finished", "error"})
    /\ [][final' # final =>
            /\ final = NoSignal
            /\ final'.sig \in {"finished", "error"}
            /\ (final'.sig = "finished" /\ final'.n > 0) =>
                   (is_running /\ runPc = "crawl" /\ stack = <<>>)]_vars
    /\ [][final # NoSignal =>
            (final' = final /\ progress' = progress /\ fetchLog' = fetchLog)]_vars

\* a run that lost a fetch, went on, and ended with finished(n), n > 0, after
\* the lines of a completed crawl
C33_Witness ==
    /\ runPc = "done" /\ final.sig = "finished" /\ final.n > 0
    /\ faults > 0 /\ Len(fetchLog) >= 2
    /\ progress[Len(progress)].line = "OutputDir"

-----------------------------------------------------------------------------
(* Properties of the mirror as a whole *)

\* the references of a saved page that save_page replaced by a relative
\* path: those without '.git' whose absolute URL is in scope
RewrittenRefs(f) ==
    IF f \in RewrittenFiles
    THEN {r \in Joined(f.received) :
             ~Malformed(r) /\ is_valid_url(urljoin(f.url, r))}
    ELSE {}

\* C34 (Mirror link consistency): at the end of a run that was never
\* stopped, with the three resource options on and no failed fetch or write,
\* every reference save_page rewrote in a saved page targets a URL that is,
\* once normalized, in the visited set.
C34_MirrorLinksVisited ==
    (/\ runPc = "done" /\ ~stopped /\ faults = 0 /\ final.sig = "finished"
     /\ options.download_images /\ options.download_css /\ options.download_js) =>
        \A f \in disk : \A r \in RewrittenRefs(f) :
            Normalized(urljoin(f.url, r)) \in visited

\* C35 (Rewriter and writer agree on the mapping): for an in-scope URL u
\* outside .git, the target path get_relative_path computes for u is the
\* path save_page writes u to, and it is the path of the file saved for
\* normalize_url(u).
C35_MappingAgrees ==
    (npc = "mapped" /\ ~SaveSkipped(u) /\ is_valid_url(u)) =>
        /\ r1 = RelRef(SavePath(u))
        /\ r2 = r1
====
